---- MODULE Spec2Model ----
(***************************************************************************)
(* Model of VehicleGlobalPositionListener                                  *)
(* (src/wpi_drone/wpi_drone/vehicle_position_listener.py).                 *)
(*                                                                         *)
(* Numbers.  Lengths are integers in centimetres (1.0 m = 100, 0.05 m = 5).*)
(* Headings are quarter turns q (yaw = q * pi/2 rad), for which cos and    *)
(* sin are the exact integers Cos(q), Sin(q).  Arithmetic is exact: the    *)
(* rounding of the float32/float64 values of the program is not modelled.  *)
(* An attribute that is None in the program is the empty sequence, a       *)
(* value v that is set is <<v>>.                                           *)
(* The clock timestamps written into outbound messages (get_clock().now()) *)
(* are left out of the messages.                                           *)
(***************************************************************************)
EXTENDS Integers, Sequences, FiniteSets

VARIABLES
    isArmed,                  \* self.isArmed
    isFlying,                 \* self.isFlying
    isOffboard,               \* self.isOffboard
    arm_timestamp,            \* self.arm_timestamp
    flight_start_timestamp,   \* self.flight_start_timestamp
    initialization_counter,   \* self.initialization_counter
    home_coord_offset,        \* self.home_coord_offset
    last_traj_setpoint_msg,   \* self.last_traj_setpoint_msg
    status_var_temp,          \* self.status_var_temp
    vehicle_status,           \* self.vehicle_status
    vehicle_local_position,   \* self.vehicle_local_position
    vehicle_odometry,         \* self.vehicle_odometry
    battery_status,           \* self.battery_status
    emitted,                  \* what the last handler sent to publishers and the logger, in order
    sequencer_evaluated,      \* the last handler was a tick that got past the vehicle_status check
    ready_ticks,              \* history: ready ticks since the last not-armed status (saturating)
    delivered,                \* history: the last message delivered on each channel, None before the first
    frame,                    \* a heading under conversion: [heading, yaw, back]
    setpoints_recorded,       \* calls of publish_trajectory_setpoint so far
    move_out                  \* position and heading at the tick of the move out

vars == <<isArmed, isFlying, isOffboard, arm_timestamp, flight_start_timestamp,
          initialization_counter, home_coord_offset, last_traj_setpoint_msg,
          status_var_temp, vehicle_status, vehicle_local_position,
          vehicle_odometry, battery_status, emitted, sequencer_evaluated,
          ready_ticks, delivered, frame, setpoints_recorded, move_out>>

None == <<>>
Some(v) == <<v>>

----------------------------------------------------------------------------
(* Program constants *)

ARMING_STATE_ARMED == 2
NAV_STATE_OFFBOARD == 14
INIT_COUNTER_THRESHOLD == 50
ARRIVAL_THRESHOLD == 5
OFFSET_OUT == <<0, -100, 0>>
OFFSET_BACK == <<0, 100, 0>>

(* Bounds of the inputs *)

MaxTimestamp == 1
MaxPayload == 1
MaxStatusTimestamp == 2
MaxHeadingDeg == 720

ArmingStates == {1, ARMING_STATE_ARMED}
TakeoffTimes == {0, 1}
NavStates == {2, NAV_STATE_OFFBOARD}
Timestamps == 1..MaxTimestamp
Headings == {0, 1}
Points == {<<0, 0, 0>>, <<0, 96, 0>>, <<3, 0, 0>>}

VehicleStatusMsgs ==
    [arming_state : ArmingStates, takeoff_time : TakeoffTimes,
     nav_state : NavStates, timestamp : Timestamps]

\* No handler of the node but the debug report reads xy_valid or z_valid.
VehicleLocalPositionMsgs ==
    { [x |-> p[1], y |-> p[2], z |-> p[3], heading |-> h,
       xy_valid |-> TRUE, z_valid |-> TRUE] : p \in Points, h \in Headings }

PayloadMsgs == 1..MaxPayload

----------------------------------------------------------------------------
(* Frame transform and setpoint tracker *)

Cos(q) == CASE q % 4 = 0 -> 1 [] q % 4 = 1 -> 0 [] q % 4 = 2 -> -1 [] q % 4 = 3 -> 0
Sin(q) == CASE q % 4 = 0 -> 0 [] q % 4 = 1 -> 1 [] q % 4 = 2 -> 0 [] q % 4 = 3 -> -1

\* ned_point_from_flu_offset with the sign of the lateral term flipped
ned_point_from_flu_offset_LeftPositive(curr_ned_pos, offset_flu) ==
    LET yaw_current == vehicle_local_position.heading
        rotated_flu_x == offset_flu[1] * Cos(yaw_current) + offset_flu[2] * Sin(yaw_current)
        rotated_flu_y == offset_flu[1] * Sin(yaw_current) + offset_flu[2] * Cos(yaw_current)
        offset_ned == <<rotated_flu_x, rotated_flu_y, -offset_flu[3]>>
    IN  <<curr_ned_pos[1] + offset_ned[1], curr_ned_pos[2] + offset_ned[2],
          curr_ned_pos[3] + offset_ned[3]>>

ned_point_from_flu_offset(curr_ned_pos, offset_flu) ==
    LET yaw_current == vehicle_local_position.heading
        rotated_flu_x == offset_flu[1] * Cos(yaw_current) + offset_flu[2] * Sin(yaw_current)
        rotated_flu_y == offset_flu[1] * Sin(yaw_current) - offset_flu[2] * Cos(yaw_current)
        rotated_flu_z == offset_flu[3]
        offset_ned == <<rotated_flu_x, rotated_flu_y, -rotated_flu_z>>
    IN  <<curr_ned_pos[1] + offset_ned[1], curr_ned_pos[2] + offset_ned[2],
          curr_ned_pos[3] + offset_ned[3]>>

get_current_ned_pos ==
    <<vehicle_local_position.x - home_coord_offset[1],
      vehicle_local_position.y - home_coord_offset[2],
      vehicle_local_position.z - home_coord_offset[3]>>

\* a conversion of the target that forgets the home offset
get_ned_pos_NoHome(target) == target

get_ned_pos(target) ==
    <<target[1] - home_coord_offset[1], target[2] - home_coord_offset[2],
      target[3] - home_coord_offset[3]>>

get_traj_setpoint ==
    IF last_traj_setpoint_msg = None THEN None
    ELSE Some(get_ned_pos(last_traj_setpoint_msg[1].position))

DistSq(a, b) ==
    (a[1] - b[1]) * (a[1] - b[1]) + (a[2] - b[2]) * (a[2] - b[2])
      + (a[3] - b[3]) * (a[3] - b[3])

\* is_at_position comparing with <= instead of <
is_at_position_Inclusive(target, threshold) ==
    DistSq(<<vehicle_local_position.x - home_coord_offset[1],
             vehicle_local_position.y - home_coord_offset[2],
             vehicle_local_position.z - home_coord_offset[3]>>, target)
      <= threshold * threshold

\* sqrt(d2) < threshold  iff  d2 < threshold^2  (threshold >= 0)
is_at_position(target, threshold) ==
    LET curr_pos == get_current_ned_pos
    IN  DistSq(curr_pos, target) < threshold * threshold

\* an arrival test that takes a missing setpoint for reached
is_at_traj_setpoint_NoneIsArrived(threshold) ==
    IF last_traj_setpoint_msg = None THEN TRUE
    ELSE is_at_position(get_traj_setpoint[1], threshold)

is_at_traj_setpoint(threshold) ==
    IF last_traj_setpoint_msg = None THEN FALSE
    ELSE is_at_position(get_traj_setpoint[1], threshold)

\* the message publish_trajectory_setpoint builds when called without yaw
TrajectorySetpointMsg(position) ==
    [position |-> <<position[1] + home_coord_offset[1],
                    position[2] + home_coord_offset[2],
                    position[3] + home_coord_offset[3]>>,
     yaw |-> vehicle_local_position.heading]

HeartbeatMsg ==
    [channel |-> "offboard_control_mode", position |-> TRUE, velocity |-> FALSE,
     acceleration |-> FALSE, attitude |-> FALSE, body_rate |-> FALSE]

LogMsg(text) == [channel |-> "log", text |-> text]

\* what publish_trajectory_setpoint sends out for msg: the logger line only
\* (the publish call on trajectory_setpoint_publisher is commented out)
publish_trajectory_setpoint_out(msg) ==
    <<LogMsg("Trajectory setpoint")>>

----------------------------------------------------------------------------
(* Heading and yaw *)

\* An angle in radians is written exactly, as the fraction pi_times / over of
\* pi: heading * (math.pi / 180.0) is [pi_times |-> heading, over |-> 180].
\* The rounding of the floating point product is not modelled.

\* a conversion that negates the yaw
heading_to_px4_yaw_Negated(heading) ==
    LET normalised == heading % 360
        signed == IF normalised > 180 THEN normalised - 360 ELSE normalised
    IN  [pi_times |-> 0 - signed, over |-> 180]

heading_to_px4_yaw(heading) ==
    LET normalised == heading % 360
        signed == IF normalised > 180 THEN normalised - 360 ELSE normalised
    IN  [pi_times |-> signed, over |-> 180]

\* a conversion that leaves out the modulo
px4_yaw_to_heading_NoWrap(yaw) == (yaw.pi_times * 180) \div yaw.over

px4_yaw_to_heading(yaw) == ((yaw.pi_times * 180) \div yaw.over) % 360

----------------------------------------------------------------------------
(* Telemetry callbacks *)

Quiet == emitted' = <<>> /\ sequencer_evaluated' = FALSE

vehicle_local_position_callback(msg) ==
    /\ vehicle_local_position' = msg
    /\ delivered' = [delivered EXCEPT !.position = Some(msg)]
    /\ Quiet
    /\ UNCHANGED frame
    /\ UNCHANGED <<isArmed, isFlying, isOffboard, arm_timestamp,
                   flight_start_timestamp, initialization_counter,
                   home_coord_offset, last_traj_setpoint_msg, status_var_temp,
                   vehicle_status, vehicle_odometry, battery_status, ready_ticks,
                   setpoints_recorded, move_out>>

StatusArmed(msg) == msg.arming_state = ARMING_STATE_ARMED
StatusFlying(msg) == msg.takeoff_time > 0
StatusOffboard(msg) == msg.nav_state = NAV_STATE_OFFBOARD

\* a status handler that restarts the counter whenever the status is not ready
CounterAfterStatus_ResetUnlessReady(msg) ==
    IF StatusArmed(msg) /\ StatusFlying(msg) /\ StatusOffboard(msg)
    THEN initialization_counter ELSE 0

\* a status handler that keeps the counter on disarm
CounterAfterStatus_Kept(msg) == initialization_counter

CounterAfterStatus(msg) ==
    IF StatusArmed(msg) THEN initialization_counter ELSE 0

\* an arm timestamp that follows every armed status
ArmTimestampAfterStatus_Overwritten(msg) ==
    IF StatusArmed(msg) THEN Some(msg.timestamp) ELSE None

ArmTimestampAfterStatus(msg) ==
    IF StatusArmed(msg)
    THEN (IF arm_timestamp = None THEN Some(msg.timestamp) ELSE arm_timestamp)
    ELSE None

\* a home offset that follows the position at every flying status
HomeAfterStatus_EveryFlyingStatus(msg) ==
    IF StatusFlying(msg)
    THEN <<vehicle_local_position.x, vehicle_local_position.y,
           vehicle_local_position.z>>
    ELSE home_coord_offset

HomeAfterStatus(msg) ==
    IF StatusFlying(msg) /\ flight_start_timestamp = None
    THEN <<vehicle_local_position.x, vehicle_local_position.y,
           vehicle_local_position.z>>
    ELSE home_coord_offset

vehicle_status_callback(msg) ==
    /\ vehicle_status' = Some(msg)
    /\ isArmed' = StatusArmed(msg)
    /\ isFlying' = StatusFlying(msg)
    /\ isOffboard' = StatusOffboard(msg)
    /\ arm_timestamp' = ArmTimestampAfterStatus(msg)
    /\ initialization_counter' = CounterAfterStatus(msg)
    /\ flight_start_timestamp' =
         IF StatusFlying(msg)
         THEN (IF flight_start_timestamp = None THEN Some(msg.timestamp)
               ELSE flight_start_timestamp)
         ELSE None
    /\ home_coord_offset' = HomeAfterStatus(msg)
    /\ ready_ticks' = IF StatusArmed(msg) THEN ready_ticks ELSE 0
    /\ delivered' = [delivered EXCEPT !.status = Some(msg)]
    /\ Quiet
    /\ UNCHANGED frame
    /\ UNCHANGED <<last_traj_setpoint_msg, status_var_temp,
                   vehicle_local_position, vehicle_odometry, battery_status,
                   setpoints_recorded, move_out>>

vehicle_odometry_callback(msg) ==
    /\ vehicle_odometry' = Some(msg)
    /\ delivered' = [delivered EXCEPT !.odometry = Some(msg)]
    /\ Quiet
    /\ UNCHANGED frame
    /\ UNCHANGED <<isArmed, isFlying, isOffboard, arm_timestamp,
                   flight_start_timestamp, initialization_counter,
                   home_coord_offset, last_traj_setpoint_msg, status_var_temp,
                   vehicle_status, vehicle_local_position, battery_status,
                   ready_ticks, setpoints_recorded, move_out>>

battery_status_callback(msg) ==
    /\ battery_status' = Some(msg)
    /\ delivered' = [delivered EXCEPT !.battery = Some(msg)]
    /\ Quiet
    /\ UNCHANGED frame
    /\ UNCHANGED <<isArmed, isFlying, isOffboard, arm_timestamp,
                   flight_start_timestamp, initialization_counter,
                   home_coord_offset, last_traj_setpoint_msg, status_var_temp,
                   vehicle_status, vehicle_local_position, vehicle_odometry,
                   ready_ticks, setpoints_recorded, move_out>>

----------------------------------------------------------------------------
(* Control loop tick *)

\* a tick that does not wait for the first vehicle status
StatusInitialized_Always == TRUE

StatusInitialized == vehicle_status # None

\* a readiness test that forgets the offboard flag
Ready_NoOffboard == isArmed /\ isFlying

Ready == isArmed /\ isFlying /\ isOffboard

\* a debounce test that is off by one
CounterReached_Early == initialization_counter >= INIT_COUNTER_THRESHOLD - 1

CounterReached == initialization_counter >= INIT_COUNTER_THRESHOLD

\* the tick runs the if/elif chain on status_var_temp
Sequencing == StatusInitialized /\ Ready /\ CounterReached

\* a tick that counts on every ready tick, the sequencing ones included
Counting_Always == StatusInitialized /\ Ready

\* the tick runs the else branch that counts
Counting == StatusInitialized /\ Ready /\ ~CounterReached

\* an arrival branch that jumps over the move back
NextStatusVar_SkipMoveBack ==
    CASE status_var_temp = 0 -> 1
      [] status_var_temp = 1 -> 2
      [] status_var_temp = 2 -> IF is_at_traj_setpoint(ARRIVAL_THRESHOLD) THEN 4 ELSE 2
      [] status_var_temp = 3 -> 4
      [] status_var_temp = 4 -> IF is_at_traj_setpoint(ARRIVAL_THRESHOLD) THEN 5 ELSE 4
      [] status_var_temp = 5 -> 6
      [] OTHER -> status_var_temp

\* a chain that goes from the first step to the arrival check of the move out
NextStatusVar_SkipMoveOut ==
    CASE status_var_temp = 0 -> 2
      [] status_var_temp = 1 -> 2
      [] status_var_temp = 2 -> IF is_at_traj_setpoint(ARRIVAL_THRESHOLD) THEN 3 ELSE 2
      [] status_var_temp = 3 -> 4
      [] status_var_temp = 4 -> IF is_at_traj_setpoint(ARRIVAL_THRESHOLD) THEN 5 ELSE 4
      [] status_var_temp = 5 -> 6
      [] OTHER -> status_var_temp

\* a chain that never takes the last step
NextStatusVar_NoDone ==
    CASE status_var_temp = 0 -> 1
      [] status_var_temp = 1 -> 2
      [] status_var_temp = 2 -> IF is_at_traj_setpoint(ARRIVAL_THRESHOLD) THEN 3 ELSE 2
      [] status_var_temp = 3 -> 4
      [] status_var_temp = 4 -> IF is_at_traj_setpoint(ARRIVAL_THRESHOLD) THEN 5 ELSE 4
      [] OTHER -> status_var_temp

\* a chain that starts the mission again once it is through
NextStatusVar_Restart ==
    CASE status_var_temp = 0 -> 1
      [] status_var_temp = 1 -> 2
      [] status_var_temp = 2 -> IF is_at_traj_setpoint(ARRIVAL_THRESHOLD) THEN 3 ELSE 2
      [] status_var_temp = 3 -> 4
      [] status_var_temp = 4 -> IF is_at_traj_setpoint(ARRIVAL_THRESHOLD) THEN 5 ELSE 4
      [] status_var_temp = 5 -> 6
      [] OTHER -> 0

\* status_var_temp after one pass through the if/elif chain
NextStatusVar ==
    CASE status_var_temp = 0 -> 1
      [] status_var_temp = 1 -> 2
      [] status_var_temp = 2 -> IF is_at_traj_setpoint(ARRIVAL_THRESHOLD) THEN 3 ELSE 2
      [] status_var_temp = 3 -> 4
      [] status_var_temp = 4 -> IF is_at_traj_setpoint(ARRIVAL_THRESHOLD) THEN 5 ELSE 4
      [] status_var_temp = 5 -> 6
      [] OTHER -> status_var_temp

\* a move back that starts from the home position, not from the current one
NextSetpointMsg_BackFromHome ==
    CASE status_var_temp = 1 ->
           Some(TrajectorySetpointMsg(
                  ned_point_from_flu_offset(get_current_ned_pos, OFFSET_OUT)))
      [] status_var_temp = 3 ->
           Some(TrajectorySetpointMsg(
                  ned_point_from_flu_offset(<<0, 0, 0>>, OFFSET_BACK)))
      [] OTHER -> last_traj_setpoint_msg

\* last_traj_setpoint_msg after one pass through the if/elif chain
NextSetpointMsg ==
    CASE status_var_temp = 1 ->
           Some(TrajectorySetpointMsg(
                  ned_point_from_flu_offset(get_current_ned_pos, OFFSET_OUT)))
      [] status_var_temp = 3 ->
           Some(TrajectorySetpointMsg(
                  ned_point_from_flu_offset(get_current_ned_pos, OFFSET_BACK)))
      [] OTHER -> last_traj_setpoint_msg

\* what one pass through the if/elif chain sends out
SequencerOut ==
    CASE status_var_temp = 0 ->
           <<LogMsg("Vehicle is armed, flying, and in offboard mode")>>
      [] status_var_temp = 1 ->
           <<LogMsg("Current position")>>
             \o publish_trajectory_setpoint_out(NextSetpointMsg[1])
      [] status_var_temp = 2 ->
           IF is_at_traj_setpoint(ARRIVAL_THRESHOLD)
           THEN <<LogMsg("Vehicle is at target position")>> ELSE <<>>
      [] status_var_temp = 3 ->
           <<LogMsg("Current position")>>
             \o publish_trajectory_setpoint_out(NextSetpointMsg[1])
      [] status_var_temp = 4 ->
           IF is_at_traj_setpoint(ARRIVAL_THRESHOLD)
           THEN <<LogMsg("Vehicle is back at target position")>> ELSE <<>>
      [] status_var_temp = 5 ->
           <<LogMsg("Vehicle is back at start position")>>
      [] OTHER -> <<>>

\* how often one pass through the if/elif chain calls publish_trajectory_setpoint
SetpointCalls ==
    Len(SelectSeq(SequencerOut, LAMBDA m : m = LogMsg("Trajectory setpoint")))

publish_offboard_control_heartbeat_signal == <<HeartbeatMsg>>

timer_callback ==
    /\ emitted' = publish_offboard_control_heartbeat_signal
                    \o (IF Sequencing THEN SequencerOut ELSE <<>>)
    /\ sequencer_evaluated' = StatusInitialized
    /\ status_var_temp' = IF Sequencing THEN NextStatusVar ELSE status_var_temp
    /\ last_traj_setpoint_msg' =
         IF Sequencing THEN NextSetpointMsg ELSE last_traj_setpoint_msg
    /\ setpoints_recorded' =
         IF Sequencing THEN setpoints_recorded + SetpointCalls
         ELSE setpoints_recorded
    /\ move_out' =
         IF Sequencing /\ status_var_temp = 1
         THEN Some([position |-> <<vehicle_local_position.x,
                                   vehicle_local_position.y,
                                   vehicle_local_position.z>>,
                    heading |-> vehicle_local_position.heading])
         ELSE move_out
    /\ initialization_counter' =
         IF Counting THEN initialization_counter + 1 ELSE initialization_counter
    /\ ready_ticks' =
         IF isArmed /\ isFlying /\ isOffboard /\ ready_ticks < INIT_COUNTER_THRESHOLD
         THEN ready_ticks + 1 ELSE ready_ticks
    /\ UNCHANGED <<isArmed, isFlying, isOffboard, arm_timestamp,
                   flight_start_timestamp, home_coord_offset, vehicle_status,
                   vehicle_local_position, vehicle_odometry, battery_status,
                   delivered, frame>>

----------------------------------------------------------------------------
(* Specification *)

\* the node after __init__
InitNode ==
    /\ isArmed = FALSE
    /\ isFlying = FALSE
    /\ isOffboard = FALSE
    /\ arm_timestamp = None
    /\ flight_start_timestamp = None
    /\ initialization_counter = 0
    /\ home_coord_offset = <<0, 0, 0>>
    /\ last_traj_setpoint_msg = None
    /\ status_var_temp = 0
    /\ vehicle_status = None
    /\ vehicle_local_position =
         [x |-> 0, y |-> 0, z |-> 0, heading |-> 0,
          xy_valid |-> FALSE, z_valid |-> FALSE]
    /\ vehicle_odometry = None
    /\ battery_status = None
    /\ emitted = <<>>
    /\ sequencer_evaluated = FALSE
    /\ ready_ticks = 0
    /\ delivered = [position |-> None, status |-> None, odometry |-> None,
                    battery |-> None]
    /\ setpoints_recorded = 0
    /\ move_out = None

Init ==
    /\ InitNode
    /\ frame = [heading |-> 0, yaw |-> None, back |-> None]

\* The mission: the tick and the two channels it reads.  The odometry and
\* battery handlers write one attribute each, which no other handler reads;
\* they run in SpecTelemetry.
Next ==
    \/ \E msg \in VehicleStatusMsgs : vehicle_status_callback(msg)
    \/ \E msg \in VehicleLocalPositionMsgs : vehicle_local_position_callback(msg)
    \/ timer_callback

Spec == Init /\ [][Next]_vars

\* All four channels and the tick, with the vehicle standing at the origin.
OriginPositionMsgs ==
    { m \in VehicleLocalPositionMsgs : m.x = 0 /\ m.y = 0 /\ m.heading = 0 }

NextTelemetry ==
    \/ \E msg \in VehicleStatusMsgs : vehicle_status_callback(msg)
    \/ \E msg \in OriginPositionMsgs : vehicle_local_position_callback(msg)
    \/ \E msg \in PayloadMsgs : vehicle_odometry_callback(msg)
    \/ \E msg \in PayloadMsgs : battery_status_callback(msg)
    \/ timer_callback

SpecTelemetry == Init /\ [][NextTelemetry]_vars

\* The readiness tracker: status updates with several timestamps (0 included),
\* the tick, and the vehicle standing at the origin.
ReadinessStatusMsgs ==
    [arming_state : ArmingStates, takeoff_time : TakeoffTimes,
     nav_state : NavStates, timestamp : 0..MaxStatusTimestamp]

NextReadiness ==
    \/ \E msg \in ReadinessStatusMsgs : vehicle_status_callback(msg)
    \/ \E msg \in OriginPositionMsgs : vehicle_local_position_callback(msg)
    \/ timer_callback

SpecReadiness == Init /\ [][NextReadiness]_vars

\* The two conversions applied to a heading in whole degrees: first to a yaw,
\* then back.  The node itself stands still.
HeadingInputs == 0..MaxHeadingDeg

InitFrame ==
    /\ InitNode
    /\ frame \in [heading : HeadingInputs, yaw : {None}, back : {None}]

NodeVars ==
    <<isArmed, isFlying, isOffboard, arm_timestamp, flight_start_timestamp,
      initialization_counter, home_coord_offset, last_traj_setpoint_msg,
      status_var_temp, vehicle_status, vehicle_local_position,
      vehicle_odometry, battery_status, emitted, sequencer_evaluated,
      ready_ticks, delivered, setpoints_recorded, move_out>>

ConvertHeading ==
    /\ frame.yaw = None
    /\ frame' = [frame EXCEPT !.yaw = Some(heading_to_px4_yaw(frame.heading))]
    /\ UNCHANGED NodeVars

ConvertYaw ==
    /\ frame.yaw # None
    /\ frame.back = None
    /\ frame' = [frame EXCEPT !.back = Some(px4_yaw_to_heading(frame.yaw[1]))]
    /\ UNCHANGED NodeVars

NextFrame == ConvertHeading \/ ConvertYaw

SpecFrame == InitFrame /\ [][NextFrame]_vars

\* The mission under a timer that keeps firing (create_timer with a period of
\* 0.1 s): status updates with one timestamp, position updates at heading 0,
\* and the tick, which is taken whenever it stays possible.
LivePositionMsgs == { m \in VehicleLocalPositionMsgs : m.heading = 0 }

LiveStatusMsgs == { m \in VehicleStatusMsgs : m.timestamp = 1 }

NextLive ==
    \/ \E msg \in LiveStatusMsgs : vehicle_status_callback(msg)
    \/ \E msg \in LivePositionMsgs : vehicle_local_position_callback(msg)
    \/ timer_callback

SpecLive == Init /\ [][NextLive]_vars /\ WF_vars(timer_callback)

----------------------------------------------------------------------------
(* Claims *)

ReadyNow == isArmed /\ isFlying /\ isOffboard

RawPosition ==
    <<vehicle_local_position.x, vehicle_local_position.y, vehicle_local_position.z>>

\* the square of the distance from the position estimate to the recorded setpoint
DistSqToSetpoint == DistSq(RawPosition, last_traj_setpoint_msg[1].position)

Heartbeat ==
    [channel |-> "offboard_control_mode", position |-> TRUE, velocity |-> FALSE,
     acceleration |-> FALSE, attitude |-> FALSE, body_rate |-> FALSE]

SetpointLogged(out) ==
    \E i \in 1..Len(out) : out[i] = [channel |-> "log", text |-> "Trajectory setpoint"]

\* the last step was a tick that ran the sequencer chain and sent nothing but the heartbeat
QuietSequencingTick ==
    /\ emitted = <<Heartbeat>>
    /\ sequencer_evaluated
    /\ ReadyNow
    /\ initialization_counter >= 50

\* the last step was the tick of step 1, which recorded the setpoint of the move out
MoveOutJustRecorded ==
    /\ status_var_temp = 2
    /\ SetpointLogged(emitted)
    /\ last_traj_setpoint_msg # None

\* C1: a tick at which armed, flying and offboard do not all hold leaves the
\* mission step and the recorded setpoint as they are and logs no setpoint,
\* whatever the step and the counter.
C1_NotReadyTickIdles ==
    [][(timer_callback /\ ~ReadyNow) =>
          /\ status_var_temp' = status_var_temp
          /\ last_traj_setpoint_msg' = last_traj_setpoint_msg
          /\ ~SetpointLogged(emitted')]_vars

\* a tick has just run while the vehicle was armed and flying but not in
\* offboard mode, with the mission waiting for arrival and the counter full
C1_Witness ==
    /\ emitted = <<Heartbeat>>
    /\ sequencer_evaluated
    /\ isArmed /\ isFlying /\ ~isOffboard
    /\ status_var_temp = 2
    /\ initialization_counter = 50

\* C2 (as claimed): every loss of readiness, by disarming, by flying becoming
\* false or by leaving offboard mode, resets the debounce counter to 0.
C2_ReadinessLossResetsCounter ==
    [][(ReadyNow /\ ~ReadyNow') => initialization_counter' = 0]_vars

\* C3: the step leaves 0 only on a tick that finds the counter at 50 or more,
\* after at least 50 ready ticks since the last not-armed status; with no
\* ready tick since the last not-armed status the step is never left.
C3_LeavesIdleOnlyAfterDebounce ==
    [][(status_var_temp = 0 /\ status_var_temp' # 0) =>
          /\ timer_callback
          /\ initialization_counter >= 50
          /\ ready_ticks >= 50]_vars

\* the tick that left step 0 has just run, after 50 ready ticks
C3_Witness ==
    /\ status_var_temp = 1
    /\ Len(emitted) = 2
    /\ ready_ticks = 50

\* C4: a not-armed status received in step 2 sets the counter to 0 and leaves
\* the step at 2; while the counter is below 50 no step changes the mission
\* step or the recorded setpoint; and step 2 is only ever left for step 3.
C4_DisarmPausesAwaitArrivalOut ==
    [][/\ (status_var_temp = 2
             /\ \E msg \in VehicleStatusMsgs :
                  msg.arming_state # 2 /\ vehicle_status_callback(msg))
          => (initialization_counter' = 0 /\ status_var_temp' = 2)
       /\ (initialization_counter < 50)
          => (status_var_temp' = status_var_temp
                /\ last_traj_setpoint_msg' = last_traj_setpoint_msg)
       /\ (status_var_temp = 2) => (status_var_temp' \in {2, 3})]_vars

\* the mission is in step 2 with the counter part way up again and a ready
\* tick has just run: the vehicle was disarmed after the move out was issued
C4_Witness ==
    /\ status_var_temp = 2
    /\ initialization_counter > 0
    /\ initialization_counter < 50
    /\ ReadyNow
    /\ emitted = <<Heartbeat>>
    /\ sequencer_evaluated

\* C5: the step is one of 0..6 and every step of the node leaves it where it
\* is or moves it to the next value: never back, never over a value.
C5_StepIsLinear ==
    [][/\ status_var_temp \in 0..6
       /\ (status_var_temp' = status_var_temp
             \/ status_var_temp' = status_var_temp + 1)
       /\ (status_var_temp' # status_var_temp => timer_callback)]_vars

\* the mission went through all seven values
C5_Witness == status_var_temp = 6 /\ emitted # <<>>

\* C6 (as claimed): once the step reached by the arrival check of step 4
\* (step 5) is entered, no tick changes the step, records a setpoint or sends
\* anything but the heartbeat.
C6_StepAfterArrivalBackIsInert ==
    [][status_var_temp = 5 =>
          /\ status_var_temp' = 5
          /\ last_traj_setpoint_msg' = last_traj_setpoint_msg
          /\ (timer_callback => emitted' = <<Heartbeat>>)]_vars

\* C6 (amended): step 6 is terminal and inert: in step 6 no step of the node
\* changes the mission step or the recorded setpoint and a tick sends the
\* heartbeat only.  Step 5 is left by the next sequencing tick, which logs a
\* line and moves to 6; it records no setpoint.
C6_LastStepIsInert ==
    [][/\ status_var_temp = 6 =>
            /\ status_var_temp' = 6
            /\ last_traj_setpoint_msg' = last_traj_setpoint_msg
            /\ (timer_callback => emitted' = <<Heartbeat>>)
       /\ status_var_temp = 5 =>
            /\ status_var_temp' \in {5, 6}
            /\ last_traj_setpoint_msg' = last_traj_setpoint_msg
            /\ ~SetpointLogged(emitted')
            /\ ((timer_callback /\ ReadyNow /\ initialization_counter >= 50)
                  => (status_var_temp' = 6 /\ Len(emitted') = 2))]_vars

\* a sequencing tick has just run in step 6
C6_Witness == status_var_temp = 6 /\ QuietSequencingTick

\* C7: step 2 is left for 3, and step 4 for 5, only by a ready tick at which
\* the distance from the position estimate to the recorded setpoint is
\* strictly below 5 cm; at exactly 5 cm the step stays.
C7_ArrivalIsStrict ==
    [][((status_var_temp = 2 /\ status_var_temp' = 3)
          \/ (status_var_temp = 4 /\ status_var_temp' = 5)) =>
          /\ timer_callback
          /\ ReadyNow
          /\ last_traj_setpoint_msg # None
          /\ DistSqToSetpoint < 5 * 5]_vars

\* a sequencing tick has just checked arrival at exactly 5 cm and stayed
C7_Witness ==
    /\ status_var_temp \in {2, 4}
    /\ QuietSequencingTick
    /\ DistSqToSetpoint = 5 * 5

\* C8 (as claimed): a handler that records a setpoint sends exactly one message
\* carrying that record on the trajectory setpoint channel.
C8_RecordedSetpointIsPublished ==
    SetpointLogged(emitted) =>
        Cardinality({ i \in 1..Len(emitted) :
                        emitted[i] = [channel |-> "trajectory_setpoint",
                                      msg |-> last_traj_setpoint_msg[1]] }) = 1

\* C9 (as claimed): at yaw 0 the setpoint recorded by the move out is the
\* position estimate plus (0, -1 m, 0).
C9_MoveOutIsMinusEast ==
    (MoveOutJustRecorded /\ vehicle_local_position.heading = 0) =>
        last_traj_setpoint_msg[1].position =
            <<RawPosition[1], RawPosition[2] - 100, RawPosition[3]>>

\* C9 (amended): at yaw 0 the transform maps the offset (forward 0, left -1 m,
\* up 0) to pos + (0, +1 m, 0); the setpoint recorded by the move out at yaw 0
\* is the position estimate plus (0, +1 m, 0), which is (0, 1 m, 0) from the
\* origin with home (0, 0, 0).
C9_MoveOutIsPlusEast ==
    /\ vehicle_local_position.heading = 0 =>
          ned_point_from_flu_offset(get_current_ned_pos, <<0, -100, 0>>) =
              <<get_current_ned_pos[1], get_current_ned_pos[2] + 100,
                get_current_ned_pos[3]>>
    /\ (MoveOutJustRecorded /\ vehicle_local_position.heading = 0) =>
          /\ last_traj_setpoint_msg[1].position =
                <<RawPosition[1], RawPosition[2] + 100, RawPosition[3]>>
          /\ (RawPosition = <<0, 0, 0>> /\ home_coord_offset = <<0, 0, 0>>)
                => last_traj_setpoint_msg[1].position = <<0, 100, 0>>

\* the move out has just been recorded at the origin, heading 0, home (0,0,0)
C9_Witness ==
    /\ MoveOutJustRecorded
    /\ vehicle_local_position.heading = 0
    /\ RawPosition = <<0, 0, 0>>
    /\ home_coord_offset = <<0, 0, 0>>
    /\ ready_ticks = 50
    /\ last_traj_setpoint_msg[1].position = <<0, 100, 0>>

\* C10: every tick sends exactly one heartbeat (position only), first, also
\* before any vehicle status was received; and the tick goes on to the
\* sequencer exactly when a vehicle status has been received before.
C10_HeartbeatFirstThenSequencer ==
    [][timer_callback =>
          /\ Len(emitted') >= 1
          /\ emitted'[1] = Heartbeat
          /\ \A i \in 2..Len(emitted') : emitted'[i].channel # "offboard_control_mode"
          /\ (sequencer_evaluated' <=> vehicle_status # <<>>)]_vars

\* a tick has just run before any vehicle status was received
C10_Witness ==
    /\ emitted = <<Heartbeat>>
    /\ vehicle_status = <<>>
    /\ ~sequencer_evaluated

\* C11 (as claimed): once a home offset has been latched (it is no longer the
\* initial (0, 0, 0)), no later status or position update changes it, also
\* when flying goes false and true again.
C11_HomeLatchedOnce ==
    [][home_coord_offset # <<0, 0, 0>> =>
          home_coord_offset' = home_coord_offset]_vars

\* C11 (amended): the home offset is latched at every status update in which
\* flying goes from false to true: it takes the position estimate held at that
\* moment; it changes in no other step, and not at all while flying stays true.
C11_HomeLatchedAtEachTakeoff ==
    [][/\ home_coord_offset' # home_coord_offset =>
            /\ ~isFlying
            /\ \E msg \in VehicleStatusMsgs :
                  msg.takeoff_time > 0 /\ vehicle_status_callback(msg)
       /\ (~isFlying /\ \E msg \in VehicleStatusMsgs :
                           msg.takeoff_time > 0 /\ vehicle_status_callback(msg))
            => home_coord_offset' = RawPosition
       /\ isFlying => home_coord_offset' = home_coord_offset]_vars

\* the vehicle is flying, the home offset was latched away from the origin and
\* the position estimate has moved on since
C11_Witness ==
    /\ isFlying
    /\ flight_start_timestamp # <<>>
    /\ home_coord_offset = <<0, 96, 0>>
    /\ RawPosition = <<3, 0, 0>>

\* C12: the arm timestamp is absent exactly when the latest status is not
\* armed; an armed status that finds it absent sets it to its own timestamp,
\* an armed status that finds it set leaves it; no other step changes it; and
\* every not-armed status leaves the debounce counter at 0.
C12_ArmTimestampOncePerArming ==
    [][/\ \A msg \in ReadinessStatusMsgs :
            vehicle_status_callback(msg) =>
               /\ (arm_timestamp' = <<>>) <=> (msg.arming_state # 2)
               /\ (msg.arming_state = 2 /\ arm_timestamp = <<>>)
                    => arm_timestamp' = <<msg.timestamp>>
               /\ (msg.arming_state = 2 /\ arm_timestamp # <<>>)
                    => arm_timestamp' = arm_timestamp
               /\ msg.arming_state # 2 => initialization_counter' = 0
       /\ (~ \E msg \in ReadinessStatusMsgs : vehicle_status_callback(msg))
            => arm_timestamp' = arm_timestamp
       /\ vehicle_status # <<>> =>
            ((arm_timestamp = <<>>) <=> (vehicle_status[1].arming_state # 2))
       /\ vehicle_status = <<>> => arm_timestamp = <<>>]_vars

\* armed at timestamp 1 after some ready ticks, and an armed status with the
\* later timestamp 2 has just been handled
C12_Witness ==
    /\ isArmed
    /\ arm_timestamp = <<1>>
    /\ vehicle_status # <<>>
    /\ vehicle_status[1].timestamp = 2
    /\ emitted = <<>>
    /\ initialization_counter > 0

\* thresholds in centimetres, from 0 to 10 m
ThresholdInputs == {0, 5, 50, 1000}

\* C13: with no setpoint recorded, get_traj_setpoint is None and
\* is_at_traj_setpoint is false (and is defined) for every threshold, at every
\* position estimate and home offset.
C13_NoSetpointNotArrived ==
    last_traj_setpoint_msg = <<>> =>
        /\ get_traj_setpoint = <<>>
        /\ \A threshold \in ThresholdInputs : is_at_traj_setpoint(threshold) = FALSE

\* no setpoint yet, with a position estimate and a home offset away from the
\* origin, one tick before the move out is recorded
C13_Witness ==
    /\ last_traj_setpoint_msg = <<>>
    /\ status_var_temp = 1
    /\ RawPosition = <<0, 96, 0>>
    /\ home_coord_offset = <<3, 0, 0>>

\* C14 (as claimed): on every channel the stored snapshot is absent until the
\* first delivery and is the last delivered message afterwards.  The position
\* attribute always holds a message, so what it stores is <<message>>.
C14_StoreHoldsLastDelivered ==
    /\ <<vehicle_local_position>> = delivered.position
    /\ vehicle_status = delivered.status
    /\ vehicle_odometry = delivered.odometry
    /\ battery_status = delivered.battery

MissionState == <<status_var_temp, initialization_counter>>

ReadinessState ==
    <<isArmed, isFlying, isOffboard, arm_timestamp, flight_start_timestamp,
      home_coord_offset>>

\* C15 (as claimed): a step that is not a tick (it sends nothing) leaves the
\* mission step, the debounce counter, the recorded setpoint, the three
\* readiness flags, the two timestamps and the home offset as they are.
C15_TickIsOnlyWriter ==
    [][emitted' = <<>> =>
          UNCHANGED <<MissionState, last_traj_setpoint_msg, ReadinessState>>]_vars

\* C15 (amended): the mission step and the recorded setpoint change only in a
\* tick, and only a tick raises the counter, by one; a tick writes none of the
\* flags, timestamps or home offset.  These change only in the handler of a
\* vehicle status, which sets the flags from the message and sets the counter
\* to 0 exactly when the message is not armed.  The handlers of position,
\* odometry and battery change none of them.
C15_WritersByHandler ==
    [][/\ (status_var_temp' # status_var_temp
              \/ last_traj_setpoint_msg' # last_traj_setpoint_msg
              \/ initialization_counter' > initialization_counter)
          => /\ emitted' # <<>>
             /\ initialization_counter' \in
                   {initialization_counter, initialization_counter + 1}
       /\ emitted' # <<>> => UNCHANGED ReadinessState
       /\ (ReadinessState' # ReadinessState
              \/ initialization_counter' < initialization_counter)
          => /\ emitted' = <<>>
             /\ vehicle_status' # <<>>
             /\ isArmed' = (vehicle_status'[1].arming_state = 2)
             /\ isFlying' = (vehicle_status'[1].takeoff_time > 0)
             /\ isOffboard' = (vehicle_status'[1].nav_state = 14)
             /\ UNCHANGED <<vehicle_local_position, vehicle_odometry,
                            battery_status>>
       /\ (emitted' = <<>> /\ vehicle_status' # <<>>
              /\ delivered'.status # delivered.status)
          => initialization_counter' =
                IF vehicle_status'[1].arming_state = 2
                THEN initialization_counter ELSE 0
       /\ (vehicle_local_position' # vehicle_local_position
              \/ vehicle_odometry' # vehicle_odometry
              \/ battery_status' # battery_status)
          => UNCHANGED <<MissionState, last_traj_setpoint_msg, ReadinessState>>
      ]_vars

\* the tick has recorded the setpoint of the move out, odometry and battery
\* have been delivered, and then a disarmed status has put the counter back
\* to 0 and cleared the flag and the timestamp
C15_Witness ==
    /\ status_var_temp = 2
    /\ last_traj_setpoint_msg # <<>>
    /\ initialization_counter = 0
    /\ ~isArmed
    /\ arm_timestamp = <<>>
    /\ vehicle_odometry # <<>>
    /\ battery_status # <<>>
    /\ emitted = <<>>

\* the last step was a tick that ran the if/elif chain of the sequencer
SequencerRan ==
    /\ emitted # <<>>
    /\ sequencer_evaluated
    /\ ReadyNow
    /\ initialization_counter >= 50

\* C16 (as claimed): a tick that computes the target of a move (it leaves the
\* step at 2 or 4) or evaluates an arrival check (it leaves the step at 2, 3,
\* 4 or 5) works from a position estimate whose horizontal and vertical
\* validity flags are both true.
C16_PositionUsedOnlyWhenValid ==
    (SequencerRan /\ status_var_temp \in 2..5)
        => vehicle_local_position.xy_valid /\ vehicle_local_position.z_valid

\* the heading brought into (-180, 180]: modulo 360, less 360 when above 180
SignedHeading ==
    IF frame.heading % 360 > 180
    THEN (frame.heading % 360) - 360
    ELSE frame.heading % 360

\* C17: a heading converted to a yaw and back is the heading modulo 360 (the
\* heading itself when it lies in [0, 360)), and the yaw lies in (-pi, pi].
C17_HeadingRoundTrip ==
    /\ frame.yaw # <<>> =>
          /\ frame.yaw[1].over = 180
          /\ 0 - 180 < frame.yaw[1].pi_times
          /\ frame.yaw[1].pi_times <= 180
    /\ frame.back # <<>> =>
          /\ frame.back[1] = frame.heading % 360
          /\ frame.heading \in 0..359 => frame.back[1] = frame.heading

\* a heading of 270 degrees has become the yaw -pi/2 and come back as 270
C17_Witness ==
    /\ frame.heading = 270
    /\ frame.yaw = <<[pi_times |-> 0 - 90, over |-> 180]>>
    /\ frame.back = <<270>>

MoveBackJustRecorded ==
    /\ status_var_temp = 4
    /\ SetpointLogged(emitted)

\* C19: the setpoint recorded by the move back is the position estimate of
\* that tick displaced by one metre to the left of the heading of that tick
\* (west at heading 0, north at a quarter turn), with that heading as yaw;
\* neither the home offset nor the setpoint of the move out enters it.
C19_MoveBackFromCurrentPosition ==
    MoveBackJustRecorded =>
        /\ last_traj_setpoint_msg # <<>>
        /\ last_traj_setpoint_msg[1].yaw = vehicle_local_position.heading
        /\ last_traj_setpoint_msg[1].position =
             IF vehicle_local_position.heading = 0
             THEN <<RawPosition[1], RawPosition[2] - 100, RawPosition[3]>>
             ELSE <<RawPosition[1] + 100, RawPosition[2], RawPosition[3]>>

\* the vehicle took off at (0, 0.96, 0), moved out from the origin, and a
\* position update to (0.03, 0, 0) arrived before the tick of the move back
C19_Witness ==
    /\ MoveBackJustRecorded
    /\ home_coord_offset = <<0, 96, 0>>
    /\ RawPosition = <<3, 0, 0>>
    /\ vehicle_local_position.heading = 0
    /\ last_traj_setpoint_msg = <<[position |-> <<3, 0 - 100, 0>>, yaw |-> 0]>>

\* the position estimate is strictly within 0.05 m of the recorded setpoint
Arrived ==
    /\ last_traj_setpoint_msg # <<>>
    /\ DistSqToSetpoint < 5 * 5

AwaitingArrival == status_var_temp \in {2, 4}

\* C20: with ticks that keep coming, if from some point on a status has been
\* received, armed, flying and offboard all hold, and the position is strictly
\* within 0.05 m of the recorded setpoint whenever the mission awaits an
\* arrival, then the mission step reaches 6; and a step taken while the
\* mission awaits an arrival and the position is not within 0.05 m leaves the
\* mission step and the recorded setpoint as they are, so that a position
\* that never arrives keeps the mission in that step for ever.
C20_ProgressOrStall ==
    /\ (<>[](vehicle_status # <<>> /\ ReadyNow /\ (AwaitingArrival => Arrived)))
          => <>(status_var_temp = 6)
    /\ [][(AwaitingArrival /\ ~Arrived)
             => /\ status_var_temp' = status_var_temp
                /\ last_traj_setpoint_msg' = last_traj_setpoint_msg]_vars
    /\ \A s \in {2, 4} :
          []((status_var_temp = s /\ []~Arrived) => [](status_var_temp = s))

\* the mission has run through both arrivals and is at the last step, ready
C20_Witness ==
    /\ status_var_temp = 6
    /\ ReadyNow
    /\ Arrived
    /\ initialization_counter >= 50

\* C21: with a setpoint recorded, is_at_traj_setpoint(threshold) is the test
\* "the raw position estimate is less than threshold from the stored
\* setpoint", in which the home offset does not occur; a step that changes the
\* home offset leaves the result as it was; and the setpoint a move has just
\* stored is the raw position estimate plus the rotated offset.
C21_ArrivalIgnoresHome ==
    /\ [](last_traj_setpoint_msg # <<>> =>
             \A threshold \in ThresholdInputs :
                 is_at_traj_setpoint(threshold)
                     <=> DistSqToSetpoint < threshold * threshold)
    /\ [][home_coord_offset' # home_coord_offset =>
             \A threshold \in ThresholdInputs :
                 is_at_traj_setpoint(threshold)'
                     <=> is_at_traj_setpoint(threshold)]_vars
    /\ []((MoveOutJustRecorded \/ MoveBackJustRecorded) =>
             last_traj_setpoint_msg[1].position =
                 IF status_var_temp = 2
                 THEN IF vehicle_local_position.heading = 0
                      THEN <<RawPosition[1], RawPosition[2] + 100, RawPosition[3]>>
                      ELSE <<RawPosition[1] - 100, RawPosition[2], RawPosition[3]>>
                 ELSE IF vehicle_local_position.heading = 0
                      THEN <<RawPosition[1], RawPosition[2] - 100, RawPosition[3]>>
                      ELSE <<RawPosition[1] + 100, RawPosition[2], RawPosition[3]>>)

\* the move out was recorded from the origin, the home offset is now
\* (0, 0.96, 0), and the tick has found the vehicle at the setpoint
C21_Witness ==
    /\ status_var_temp = 3
    /\ SequencerRan
    /\ last_traj_setpoint_msg # <<>>
    /\ last_traj_setpoint_msg[1].position = <<0, 100, 0>>
    /\ RawPosition = <<0, 96, 0>>
    /\ home_coord_offset = <<0, 96, 0>>

\* C22: whenever the mission step is 2 (the arrival check of the move out) or
\* later, a setpoint is recorded; and before that none is.
C22_SetpointExistsFromAwaitOut ==
    /\ status_var_temp >= 2 => last_traj_setpoint_msg # <<>>
    /\ status_var_temp < 2 => last_traj_setpoint_msg = <<>>

\* a tick has just evaluated the arrival check of the move out, with the
\* vehicle still a metre away from the recorded setpoint
C22_Witness ==
    /\ status_var_temp = 2
    /\ QuietSequencingTick
    /\ last_traj_setpoint_msg # <<>>
    /\ DistSqToSetpoint = 100 * 100

\* C23: the debounce counter is always between 0 and 50; a tick with a status
\* received, armed, flying and offboard, and the counter below 50 raises it by
\* one; and it changes in no other way but by a vehicle status that is not
\* armed, which sets it to 0.
C23_CounterBetween0And50 ==
    /\ [](initialization_counter \in 0..50)
    /\ [][/\ (emitted' # <<>> /\ ReadyNow /\ vehicle_status # <<>>
                 /\ initialization_counter < 50)
              => initialization_counter' = initialization_counter + 1
          /\ initialization_counter' # initialization_counter
              => \/ /\ emitted' # <<>>
                    /\ ReadyNow
                    /\ vehicle_status # <<>>
                    /\ initialization_counter < 50
                    /\ initialization_counter' = initialization_counter + 1
                 \/ /\ emitted' = <<>>
                    /\ vehicle_status' # <<>>
                    /\ vehicle_status'[1].arming_state # 2
                    /\ vehicle_status'[1] = delivered'.status[1]
                    /\ initialization_counter' = 0]_vars

\* the tick that has just raised the counter from 49 to 50
C23_Witness ==
    /\ initialization_counter = 50
    /\ status_var_temp = 0
    /\ emitted = <<Heartbeat>>
    /\ ReadyNow
    /\ sequencer_evaluated

\* C24: at most two setpoints are ever recorded: none before the tick that
\* leaves step 1, one from then until the tick that leaves step 3, two
\* afterwards; a step records a setpoint exactly when it is the sequencing
\* tick of step 1 or of step 3, also after a pause by disarming.
C24_AtMostTwoSetpoints ==
    /\ [](/\ setpoints_recorded <= 2
          /\ setpoints_recorded =
               IF status_var_temp < 2 THEN 0
               ELSE IF status_var_temp < 4 THEN 1 ELSE 2)
    /\ [][/\ (SetpointLogged(emitted')
                 \/ last_traj_setpoint_msg' # last_traj_setpoint_msg
                 \/ setpoints_recorded' # setpoints_recorded)
              => /\ status_var_temp \in {1, 3}
                 /\ status_var_temp' = status_var_temp + 1
                 /\ ReadyNow
                 /\ initialization_counter >= 50
                 /\ emitted' # <<>>
                 /\ setpoints_recorded' = setpoints_recorded + 1
          /\ (status_var_temp \in {1, 3} /\ emitted' # <<>> /\ ReadyNow
                 /\ initialization_counter >= 50)
              => /\ SetpointLogged(emitted')
                 /\ setpoints_recorded' = setpoints_recorded + 1]_vars

\* both setpoints are recorded, the vehicle was disarmed while it awaited the
\* arrival of the move back, and the counter is on its way to 50 again
C24_Witness ==
    /\ status_var_temp = 4
    /\ setpoints_recorded = 2
    /\ ReadyNow
    /\ initialization_counter = 49
    /\ emitted = <<Heartbeat>>

\* the heading of this state is the heading the move out was issued at
SameHeadingAsMoveOut ==
    /\ move_out # <<>>
    /\ move_out[1].heading = vehicle_local_position.heading

\* C25 (as claimed): when the move back is recorded at the heading of the
\* move out, its setpoint lies strictly within 0.05 m of the position at
\* which the move out was issued.
C25_MoveBackNearStart ==
    (MoveBackJustRecorded /\ SameHeadingAsMoveOut) =>
        DistSq(last_traj_setpoint_msg[1].position, move_out[1].position) < 5 * 5

\* C25 (amended): when the move back is recorded at the heading of the move
\* out, its setpoint differs from the position at which the move out was
\* issued exactly by the position of this tick minus the setpoint of the move
\* out; so it lies strictly within 0.05 m of that start exactly when the
\* position of this tick is strictly within 0.05 m of the setpoint of the
\* move out.
C25_MoveBackOffByArrivalError ==
    [][(status_var_temp = 3 /\ status_var_temp' = 4 /\ SameHeadingAsMoveOut) =>
          /\ SetpointLogged(emitted')
          /\ move_out' = move_out
          /\ \A i \in 1..3 :
                last_traj_setpoint_msg'[1].position[i] - move_out[1].position[i]
                    = RawPosition[i] - last_traj_setpoint_msg[1].position[i]
          /\ DistSq(last_traj_setpoint_msg'[1].position, move_out[1].position)
                    < 5 * 5
                <=> DistSqToSetpoint < 5 * 5]_vars

\* the move out was issued at the origin, the vehicle arrived at (0, 0.96, 0)
\* and the move back, recorded there at the same heading, aims at (0, -0.04, 0)
C25_Witness ==
    /\ MoveBackJustRecorded
    /\ move_out = <<[position |-> <<0, 0, 0>>, heading |-> 0]>>
    /\ vehicle_local_position.heading = 0
    /\ RawPosition = <<0, 96, 0>>
    /\ last_traj_setpoint_msg[1].position = <<0, 0 - 4, 0>>

====
